---- MODULE Spec2Model ----
\* Model of the cleaning robot of src/main.cpp: a Map (grid, shape and visited
\* list), a Robot (just_visited, nblocked, poses) and the loop of Robot::run.
EXTENDS Integers, Sequences, FiniteSets

VARIABLES
    grid,          \* Map::grid, rows of characters; grid[y + 1][x + 1] is the C++ grid[y][x]
    w, h,          \* Map::w, Map::h
    visited,       \* Map::visited
    just_visited,  \* Robot::just_visited
    nblocked,      \* Robot::nblocked
    poses,         \* Robot::poses
    pose,          \* the local `pose` of Robot::run
    state,         \* "NoRobot", "Constructed", then the State of the run: "Running" or "Stopped"
    returned,      \* the values returned by Robot::run on this Map, one [start, count] per finished run
    trace          \* the cell classifications handled by the current run, in order

vars == <<grid, w, h, visited, just_visited, nblocked, poses, pose, state, returned, trace>>

-----------------------------------------------------------------------------
\* Bounds of the model.

\* Every rectangular grid of at most MaxCells cells is an input.
MaxCells == 6

\* The shared-Map specification takes the grids of at most SharedCells cells
\* and constructs at most MaxRobots robots, one after the other, on one Map.
SharedCells == 3
MaxRobots == 2

-----------------------------------------------------------------------------
\* Positions, directions and poses.

Pos(x, y) == [x |-> x, y |-> y]

Directions == {"R", "D", "L", "U"}

DirectionCount == 4

DirValue(d) == IF d \in {"R", "D"} THEN 1 ELSE -1

Plus(lhs, rhs) ==
    CASE rhs = "R" -> Pos(lhs.x + DirValue("R"), lhs.y)
      [] rhs = "D" -> Pos(lhs.x, lhs.y + DirValue("D"))
      [] rhs = "L" -> Pos(lhs.x + DirValue("L"), lhs.y)
      [] rhs = "U" -> Pos(lhs.x, lhs.y + DirValue("U"))

MkPose(p, d) == [p |-> p, d |-> d]

RotateDirReversed(d) ==
    CASE d = "R" -> "U"
      [] d = "U" -> "L"
      [] d = "L" -> "D"
      [] d = "D" -> "R"

RotateDir(d) ==
    CASE d = "R" -> "D"
      [] d = "D" -> "L"
      [] d = "L" -> "U"
      [] d = "U" -> "R"

Rotate(ps) == MkPose(ps.p, RotateDir(ps.d))

Advance(ps) == MkPose(Plus(ps.p, ps.d), ps.d)

-----------------------------------------------------------------------------
\* Cells and the Map's queries.

None == [tag |-> "None"]

Empty(p) == [tag |-> "Empty", pos |-> p]

Visited(p) == [tag |-> "Visited", pos |-> p]

Blocked == [tag |-> "Blocked"]

ValueOr(opt, dflt) == IF opt = None THEN dflt ELSE opt

FindVisited(p) ==
    IF \E i \in 1..Len(visited) : visited[i] = p THEN Visited(p) ELSE None

GetEmpty(p) ==
    IF (p.x < w /\ p.x >= 0) /\ (p.y < h /\ p.y >= 0)
    THEN IF grid[p.y + 1][p.x + 1] = "." THEN Empty(p) ELSE None
    ELSE None

MapAt(p) == ValueOr(FindVisited(p), ValueOr(GetEmpty(p), Blocked))

CountVisited == Len(visited)

Peek(ps) == MapAt(Advance(ps).p)

-----------------------------------------------------------------------------
\* Inputs.

Grid1 == << <<".", ".", ".", ".", "x", ".", ".">>,
            <<"x", ".", ".", ".", ".", ".", ".">>,
            <<".", ".", ".", ".", ".", "x", ".">>,
            <<".", ".", ".", ".", ".", ".", ".">> >>

Grid2 == << <<".", ".", ".", "x", ".", ".">>,
            <<".", ".", ".", ".", "x", "x">>,
            <<".", ".", "x", ".", ".", ".">> >>

Grid3 == << <<".", ".", ".", "x", ".">>,
            <<".", "x", ".", ".", "x">>,
            <<"x", ".", ".", ".", "x">>,
            <<".", ".", "x", ".", ".">> >>

Grid4 == << <<".">>, <<".">> >>

Grid5 == << <<".", "x">> >>

Grid6 == << <<".">>, <<"x">> >>

Tests == {Grid1, Grid2, Grid3, Grid4, Grid5, Grid6}

\* The ncleaned column of the Tests table of main
Expected(g) ==
    CASE g = Grid1 -> 15
      [] g = Grid2 -> 6
      [] g = Grid3 -> 9
      [] g = Grid4 -> 2
      [] g = Grid5 -> 1
      [] g = Grid6 -> 1

\* The pose main constructs every robot with
TestPose == MkPose(Pos(0, 0), "R")

GridsUpTo(n) ==
    UNION {[1..hh -> [1..ww -> {".", "x"}]] : <<ww, hh>> \in {s \in (1..n) \X (1..n) : s[1] * s[2] <= n}}

Grids == Tests \cup GridsUpTo(MaxCells)

\* The starting poses tried on a Map: every cell of the grid and the ring of
\* positions just outside it, with every heading.
StartPoses == {MkPose(Pos(x, y), d) : x \in -1..w, y \in -1..h, d \in Directions}

\* A run of the loop on a w x h grid is stopped by the code within this many
\* iterations; the model takes no more.
StepCap == 8 * (w * h + 1)

-----------------------------------------------------------------------------
\* Map::Map

Init ==
    /\ grid \in Grids
    /\ w = Len(grid[1])
    /\ h = Len(grid)
    /\ visited = <<Pos(0, 0)>>
    /\ just_visited = FALSE
    /\ nblocked = 0
    /\ poses = <<>>
    /\ pose = MkPose(Pos(0, 0), "R")
    /\ state = "NoRobot"
    /\ returned = <<>>
    /\ trace = <<>>

\* Robot::Robot
Construct(ps) ==
    /\ just_visited' = FALSE
    /\ nblocked' = 0
    /\ poses' = <<ps>>
    /\ state' = "Constructed"
    /\ trace' = <<>>
    /\ UNCHANGED <<grid, w, h, visited, pose, returned>>

NewRobot ==
    /\ state = "NoRobot"
    /\ \E ps \in StartPoses : Construct(ps)

\* Robot::run, up to the loop
RunBegin ==
    /\ state = "Constructed"
    /\ pose' = Head(poses)
    /\ state' = "Running"
    /\ UNCHANGED <<grid, w, h, visited, just_visited, nblocked, poses, returned, trace>>

\* Robot::run returning poses.size()
Return == returned' = Append(returned, [start |-> Head(poses), count |-> Len(poses)])

InLoop == state = "Running" /\ Len(trace) < StepCap

\* MoveEmpty with the push onto poses left out
MoveEmptyUnrecorded ==
    /\ InLoop
    /\ Peek(pose).tag = "Empty"
    /\ just_visited' = FALSE
    /\ nblocked' = 0
    /\ pose' = MkPose(Peek(pose).pos, pose.d)
    /\ visited' = Append(visited, pose'.p)
    /\ trace' = Append(trace, "Empty")
    /\ UNCHANGED <<grid, w, h, state, returned, poses>>

\* MoveEmpty storing the new pose over the last entry of poses
MoveEmptyOverwrite ==
    /\ InLoop
    /\ Peek(pose).tag = "Empty"
    /\ just_visited' = FALSE
    /\ nblocked' = 0
    /\ pose' = MkPose(Peek(pose).pos, pose.d)
    /\ visited' = Append(visited, pose'.p)
    /\ poses' = [poses EXCEPT ![Len(poses)] = pose']
    /\ trace' = Append(trace, "Empty")
    /\ UNCHANGED <<grid, w, h, state, returned>>

\* MoveEmpty leaving just_visited as it is
MoveEmptyKeepsFlag ==
    /\ InLoop
    /\ Peek(pose).tag = "Empty"
    /\ nblocked' = 0
    /\ pose' = MkPose(Peek(pose).pos, pose.d)
    /\ visited' = Append(visited, pose'.p)
    /\ poses' = Append(poses, pose')
    /\ trace' = Append(trace, "Empty")
    /\ UNCHANGED <<grid, w, h, state, returned, just_visited>>

\* One iteration of the loop, the cell ahead being Empty
MoveEmpty ==
    /\ InLoop
    /\ Peek(pose).tag = "Empty"
    /\ just_visited' = FALSE
    /\ nblocked' = 0
    /\ pose' = MkPose(Peek(pose).pos, pose.d)
    /\ visited' = Append(visited, pose'.p)
    /\ poses' = Append(poses, pose')
    /\ trace' = Append(trace, "Empty")
    /\ UNCHANGED <<grid, w, h, state, returned>>

\* MoveVisited with the just_visited test left out: it always moves
MoveVisitedAlways ==
    /\ InLoop
    /\ Peek(pose).tag = "Visited"
    /\ trace' = Append(trace, "Visited")
    /\ just_visited' = TRUE
    /\ nblocked' = 0
    /\ pose' = MkPose(Peek(pose).pos, pose.d)
    /\ UNCHANGED <<grid, w, h, visited, poses, state, returned>>

\* MoveVisited leaving nblocked as it is when it moves
MoveVisitedKeepsCount ==
    /\ InLoop
    /\ Peek(pose).tag = "Visited"
    /\ trace' = Append(trace, "Visited")
    /\ IF just_visited
       THEN /\ state' = "Stopped"
            /\ Return
            /\ UNCHANGED <<just_visited, nblocked, pose>>
       ELSE /\ just_visited' = TRUE
            /\ pose' = MkPose(Peek(pose).pos, pose.d)
            /\ UNCHANGED <<nblocked, state, returned>>
    /\ UNCHANGED <<grid, w, h, visited, poses>>

\* MoveVisited pushing the pose it moves to onto poses
MoveVisitedRecorded ==
    /\ InLoop
    /\ Peek(pose).tag = "Visited"
    /\ trace' = Append(trace, "Visited")
    /\ IF just_visited
       THEN /\ state' = "Stopped"
            /\ Return
            /\ UNCHANGED <<just_visited, nblocked, pose, poses>>
       ELSE /\ just_visited' = TRUE
            /\ nblocked' = 0
            /\ pose' = MkPose(Peek(pose).pos, pose.d)
            /\ poses' = Append(poses, pose')
            /\ UNCHANGED <<state, returned>>
    /\ UNCHANGED <<grid, w, h, visited>>

\* One iteration of the loop, the cell ahead being Visited
MoveVisited ==
    /\ InLoop
    /\ Peek(pose).tag = "Visited"
    /\ trace' = Append(trace, "Visited")
    /\ IF just_visited
       THEN /\ state' = "Stopped"
            /\ Return
            /\ UNCHANGED <<just_visited, nblocked, pose>>
       ELSE /\ just_visited' = TRUE
            /\ nblocked' = 0
            /\ pose' = MkPose(Peek(pose).pos, pose.d)
            /\ UNCHANGED <<state, returned>>
    /\ UNCHANGED <<grid, w, h, visited, poses>>

\* MoveBlocked clearing just_visited as it rotates
MoveBlockedClearsFlag ==
    /\ InLoop
    /\ Peek(pose).tag = "Blocked"
    /\ trace' = Append(trace, "Blocked")
    /\ nblocked' = nblocked + 1
    /\ just_visited' = FALSE
    /\ IF nblocked' = DirectionCount
       THEN /\ state' = "Stopped"
            /\ Return
            /\ UNCHANGED pose
       ELSE /\ pose' = Rotate(pose)
            /\ UNCHANGED <<state, returned>>
    /\ UNCHANGED <<grid, w, h, visited, poses>>

\* MoveBlocked stopping one rotation early
MoveBlockedEarlyStop ==
    /\ InLoop
    /\ Peek(pose).tag = "Blocked"
    /\ trace' = Append(trace, "Blocked")
    /\ nblocked' = nblocked + 1
    /\ IF nblocked' = DirectionCount - 1
       THEN /\ state' = "Stopped"
            /\ Return
            /\ UNCHANGED pose
       ELSE /\ pose' = Rotate(pose)
            /\ UNCHANGED <<state, returned>>
    /\ UNCHANGED <<grid, w, h, visited, just_visited, poses>>

\* One iteration of the loop, the cell ahead being Blocked
MoveBlocked ==
    /\ InLoop
    /\ Peek(pose).tag = "Blocked"
    /\ trace' = Append(trace, "Blocked")
    /\ nblocked' = nblocked + 1
    /\ IF nblocked' = DirectionCount
       THEN /\ state' = "Stopped"
            /\ Return
            /\ UNCHANGED pose
       ELSE /\ pose' = Rotate(pose)
            /\ UNCHANGED <<state, returned>>
    /\ UNCHANGED <<grid, w, h, visited, just_visited, poses>>

Next == NewRobot \/ RunBegin \/ MoveEmpty \/ MoveVisited \/ MoveBlocked

Spec == Init /\ [][Next]_vars

\* The loop of Robot::run is sequential code: an enabled step is taken.
FairSpec == Spec /\ WF_vars(Next)

\* A Map that outlives its robot: once a run has returned, another Robot is
\* constructed on the same Map object.
InitShared == Init /\ w * h <= SharedCells

NewRobotOnUsedMap ==
    /\ state = "Stopped"
    /\ Len(returned) < MaxRobots
    /\ \E ps \in StartPoses : Construct(ps)

NextShared == Next \/ NewRobotOnUsedMap

SpecShared == InitShared /\ [][NextShared]_vars

-----------------------------------------------------------------------------
\* Vocabulary of the properties.

HasRobot == state \in {"Constructed", "Running", "Stopped"}

Start == Head(poses)

LastReturned == returned[Len(returned)]

InBounds(p) == p.x \in 0..(w - 1) /\ p.y \in 0..(h - 1)

OpenAt(p) == InBounds(p) /\ grid[p.y + 1][p.x + 1] = "."

Neighbours(p) == {Plus(p, d) : d \in Directions}

NumberOf(kind) == Cardinality({i \in 1..Len(trace) : trace[i] = kind})

IsPrefix(s, t) == Len(s) <= Len(t) /\ \A i \in 1..Len(s) : s[i] = t[i]

PositionsOf(ps) == [i \in 1..Len(ps) |-> ps[i].p]

\* The positions looked at: the grid and two rings around it
Probes == {Pos(x, y) : x \in -2..(w + 1), y \in -2..(h + 1)}

-----------------------------------------------------------------------------
\* C1: on each of the six grids of main's Tests table, the robot constructed
\* at (0,0) heading Right on the fresh Map returns the expected count when its
\* run has stopped: 15, 6, 9, 2, 1 and 1.
C1_ReferenceCounts ==
    (state = "Stopped" /\ grid \in Tests /\ Start = TestPose)
        => LastReturned.count = Expected(grid)

C1_Witness ==
    /\ state = "Stopped"
    /\ grid = Grid1
    /\ Start = TestPose
    /\ LastReturned.count = 15

\* C2: a robot constructed on an open cell of the grid, with any heading,
\* eventually reaches Stopped: its run has no infinite sequence of steps.
C2_RunTerminates ==
    (state = "Constructed" /\ OpenAt(Start.p)) ~> (state = "Stopped")

C2_Witness ==
    /\ state = "Stopped"
    /\ OpenAt(Start.p)
    /\ Start.p # Pos(0, 0)
    /\ NumberOf("Empty") >= 2
    /\ NumberOf("Visited") >= 2
    /\ NumberOf("Blocked") >= 2

\* C3: the value run returns is the length of the move history when the run
\* stops, which is 1 (the starting pose) plus the number of Empty steps of the
\* run, and so at least 1.
C3_ReturnValue ==
    state = "Stopped"
        => /\ LastReturned.count = Len(poses)
           /\ LastReturned.count = 1 + NumberOf("Empty")
           /\ LastReturned.count >= 1

C3_Witness ==
    /\ state = "Stopped"
    /\ NumberOf("Empty") >= 3
    /\ LastReturned.count = 1 + NumberOf("Empty")

\* C4: from a starting pose on an open cell none of whose four neighbours is
\* open, the run is exactly four Blocked steps and returns 1.
C4_IsolatedStart ==
    (state = "Stopped" /\ OpenAt(Start.p) /\ \A q \in Neighbours(Start.p) : ~OpenAt(q))
        => /\ trace = <<"Blocked", "Blocked", "Blocked", "Blocked">>
           /\ LastReturned.count = 1

\* C5: on a single row of n open cells, a robot that starts on either end
\* cell moves through the n cells in order along the row and returns n.
SingleOpenRow == h = 1 /\ \A x \in 0..(w - 1) : OpenAt(Pos(x, 0))

RowFrom(p) ==
    [i \in 1..w |-> IF p.x = 0 THEN Pos(i - 1, 0) ELSE Pos(w - i, 0)]

C5_SingleRow ==
    (state = "Stopped" /\ SingleOpenRow /\ Start.p \in {Pos(0, 0), Pos(w - 1, 0)})
        => /\ LastReturned.count = w
           /\ PositionsOf(poses) = RowFrom(Start.p)

\* C6: classification is the three-way function of openness and visited
\* history: a position that is not open is Blocked, an open position in the
\* visited list is Visited, an open position not in it is Empty.
InVisited(p) == \E i \in 1..Len(visited) : visited[i] = p

C6_Classification ==
    \A p \in Probes :
        MapAt(p).tag = CASE ~OpenAt(p) -> "Blocked"
                         [] OpenAt(p) /\ InVisited(p) -> "Visited"
                         [] OpenAt(p) /\ ~InVisited(p) -> "Empty"

\* C7: whatever the starting pose on an open cell, the visited list holds the
\* robot's starting position from construction on, so the starting cell is
\* classified Visited and never Empty.
C7_StartSeeded ==
    (HasRobot /\ OpenAt(Start.p))
        => InVisited(Start.p) /\ MapAt(Start.p).tag = "Visited"

\* C8: a run leaves the Map as it was, so that a second Robot constructed on
\* the same Map with the same starting pose (on an open cell) returns the same
\* count as the first.
C8_MapUnchangedByRun ==
    \A i, j \in 1..Len(returned) :
        (returned[i].start = returned[j].start /\ OpenAt(returned[i].start.p))
            => returned[i].count = returned[j].count

\* C9: no step shortens the move history or changes an entry it holds: a
\* step leaves poses as it is or appends one pose at its end, and likewise
\* for the Map's visited list.
C9_HistoryGrowsOnly ==
    [][/\ IsPrefix(poses, poses')
       /\ Len(poses') <= Len(poses) + 1
       /\ IsPrefix(visited, visited')
       /\ Len(visited') <= Len(visited) + 1]_vars

C9_Witness ==
    /\ Len(poses) >= 3
    /\ Len(visited) >= 3
    /\ NumberOf("Visited") >= 1
    /\ NumberOf("Blocked") >= 1

\* C10: constructing a Robot whose starting position is a blocked cell or
\* lies outside the grid is refused with an error at construction, so that no
\* step of a run is ever taken from such a pose.
C10_BadStartRejected ==
    (HasRobot /\ ~OpenAt(Start.p)) => trace = <<>>

-----------------------------------------------------------------------------
\* The Visited steps of the run that moved the robot: every Visited entry of
\* the trace but the one that stopped the run.
StoppedByVisited ==
    state = "Stopped" /\ trace # <<>> /\ trace[Len(trace)] = "Visited"

VisitedMoves ==
    {i \in 1..Len(trace) : trace[i] = "Visited" /\ ~(StoppedByVisited /\ i = Len(trace))}

\* A step of the loop, the cell ahead being of the given kind
StepOn(kind) ==
    state = "Running" /\ Peek(pose).tag = kind /\ trace' = Append(trace, kind)

\* What a step does to just_visited
FlagRule ==
    /\ (~just_visited /\ just_visited') => (StepOn("Visited") /\ pose' = Advance(pose))
    /\ (just_visited /\ ~just_visited') => StepOn("Empty")
    /\ StepOn("Blocked") => (just_visited' = just_visited)
    /\ (StepOn("Visited") /\ just_visited) => (state' = "Stopped" /\ pose' = pose)

\* C11: just_visited is set by a move onto a Visited cell and cleared only by
\* an Empty move, Blocked steps leaving it as it is; a Visited cell ahead
\* while it is set stops the run without moving; so between two moves onto
\* Visited cells of one run there is always an Empty move.
C11_OneVisitedMove ==
    /\ [](\A i, j \in VisitedMoves :
            (i < j) => (\E k \in (i + 1)..(j - 1) : trace[k] = "Empty"))
    /\ [][FlagRule]_vars

C11_Witness ==
    /\ StoppedByVisited
    /\ OpenAt(Start.p)
    /\ Cardinality(VisitedMoves) >= 2
    /\ \E i \in VisitedMoves : i + 1 \in 1..Len(trace) /\ trace[i + 1] = "Blocked"

\* The Blocked steps at the end of the trace, a Visited step that stopped the
\* run set aside: the Blocked steps since the last move.
RECURSIVE TrailingBlocked(_)
TrailingBlocked(t) ==
    IF t = <<>> \/ t[Len(t)] # "Blocked"
    THEN 0
    ELSE 1 + TrailingBlocked(SubSeq(t, 1, Len(t) - 1))

StepsSinceMove ==
    IF StoppedByVisited THEN SubSeq(trace, 1, Len(trace) - 1) ELSE trace

\* What a step does to nblocked and when a Blocked step stops the run
CounterRule ==
    /\ StepOn("Blocked") => (state' = "Stopped" <=> TrailingBlocked(trace) = 3)
    /\ (StepOn("Empty") \/ (StepOn("Visited") /\ pose' # pose)) => nblocked' = 0

\* C12: nblocked is the number of consecutive Blocked steps since the last
\* Empty or Visited move (or since the start of the run); it is between 0 and
\* 3 while the run is Running; a Blocked step stops the run exactly when it
\* is the fourth in a row; an Empty or Visited move sets nblocked to 0.
C12_BlockedStreak ==
    /\ [](HasRobot => nblocked = TrailingBlocked(StepsSinceMove))
    /\ [](state = "Running" => nblocked \in 0..3)
    /\ [][CounterRule]_vars

C12_Witness ==
    /\ state = "Running"
    /\ OpenAt(Start.p)
    /\ nblocked = 2
    /\ Cardinality(VisitedMoves) >= 1
    /\ \E i \in 1..(Len(trace) - 1) : trace[i] = "Blocked" /\ trace[i + 1] = "Empty"

\* The position one cell ahead of a pose, direction by direction
Ahead(ps) ==
    CASE ps.d = "R" -> Pos(ps.p.x + 1, ps.p.y)
      [] ps.d = "D" -> Pos(ps.p.x, ps.p.y + 1)
      [] ps.d = "L" -> Pos(ps.p.x - 1, ps.p.y)
      [] ps.d = "U" -> Pos(ps.p.x, ps.p.y - 1)

EmptyRule ==
    StepOn("Empty")
        => /\ pose'.p = Ahead(pose)
           /\ pose'.d = pose.d
           /\ poses' = Append(poses, pose')
           /\ visited' = Append(visited, pose'.p)
           /\ nblocked' = 0
           /\ just_visited' = FALSE
           /\ state' = "Running"

\* C13: an Empty step moves the robot one cell ahead in its heading, keeps
\* the heading, appends the new pose to the move history and its position to
\* the visited list, sets nblocked to 0, clears just_visited, and the run goes
\* on Running from the new pose.
C13_EmptyStep == [][EmptyRule]_vars

C13_Witness ==
    /\ state = "Running"
    /\ OpenAt(Start.p)
    /\ Len(trace) >= 3
    /\ SubSeq(trace, Len(trace) - 2, Len(trace)) = <<"Visited", "Blocked", "Empty">>
    /\ pose = poses[Len(poses)]
    /\ ~just_visited

VisitedRule ==
    StepOn("Visited")
        => /\ poses' = poses
           /\ visited' = visited
           /\ ~just_visited
                => /\ pose'.p = Ahead(pose)
                   /\ pose'.d = pose.d
                   /\ state' = "Running"

BlockedRule ==
    StepOn("Blocked")
        => /\ poses' = poses
           /\ visited' = visited
           /\ pose'.p = pose.p
           /\ just_visited' = just_visited

\* C14: Visited and Blocked steps leave the move history and the visited
\* list as they are; a Visited step that does not stop the run moves the
\* robot to the cell ahead and keeps its heading; a Blocked step keeps the
\* position and just_visited.
C14_VisitedBlockedFrame == [][VisitedRule /\ BlockedRule]_vars

C14_Witness ==
    /\ state = "Running"
    /\ OpenAt(Start.p)
    /\ Len(poses) >= 3
    /\ Len(trace) >= 2
    /\ SubSeq(trace, Len(trace) - 1, Len(trace)) = <<"Visited", "Blocked">>
    /\ pose.p # poses[Len(poses)].p

OpenCells == {p \in Probes : OpenAt(p)}

DistinctPositions == {poses[i].p : i \in 1..Len(poses)}

NoRepeat == \A i, j \in 1..Len(poses) : poses[i].p = poses[j].p => i = j

\* C15: for a robot started at (0,0) on a fresh Map, with any heading and on
\* any grid, no position is twice in the move history, so the count returned
\* is the number of distinct cells of the history and is at most the number
\* of open cells of the grid.
C15_DistinctCells ==
    (HasRobot /\ Start.p = Pos(0, 0))
        => /\ NoRepeat
           /\ state = "Stopped"
                => /\ LastReturned.count = Cardinality(DistinctPositions)
                   /\ LastReturned.count <= Cardinality(OpenCells)

\* The cells next to the robot that are open and in no visited list
EmptyAround == {q \in Neighbours(pose.p) : OpenAt(q) /\ ~InVisited(q)}

-----------------------------------------------------------------------------
\* Pose::rotate and Pose::advance on their own: a pose is drawn, the two
\* operations are applied to it in any order, and poses keeps every pose
\* obtained, trace the operation that gave it.

\* The coordinates of the poses drawn are within PoseRange of 0, and at most
\* MaxOps operations are applied to one pose.
PoseRange == 2
MaxOps == 5

InitPose ==
    /\ grid = Grid4
    /\ w = Len(grid[1])
    /\ h = Len(grid)
    /\ visited = <<Pos(0, 0)>>
    /\ just_visited = FALSE
    /\ nblocked = 0
    /\ pose \in {MkPose(Pos(x, y), d) : x \in -PoseRange..PoseRange,
                                         y \in -PoseRange..PoseRange, d \in Directions}
    /\ poses = <<pose>>
    /\ state = "NoRobot"
    /\ returned = <<>>
    /\ trace = <<>>

ApplyRotate ==
    /\ Len(trace) < MaxOps
    /\ pose' = Rotate(pose)
    /\ poses' = Append(poses, pose')
    /\ trace' = Append(trace, "rotate")
    /\ UNCHANGED <<grid, w, h, visited, just_visited, nblocked, state, returned>>

ApplyAdvance ==
    /\ Len(trace) < MaxOps
    /\ pose' = Advance(pose)
    /\ poses' = Append(poses, pose')
    /\ trace' = Append(trace, "advance")
    /\ UNCHANGED <<grid, w, h, visited, just_visited, nblocked, state, returned>>

NextPose == ApplyRotate \/ ApplyAdvance

SpecPose == InitPose /\ [][NextPose]_vars

\* The heading after d in the cycle Right, Down, Left, Up
Cycle == <<"R", "D", "L", "U">>

After(d) ==
    LET i == CHOOSE k \in 1..4 : Cycle[k] = d IN Cycle[(i % 4) + 1]

\* The rotate operations from the i-th on, up to the first advance
RotationsFrom(i) ==
    {j \in i..Len(trace) : \A k \in i..j : trace[k] = "rotate"}

\* C17: rotate keeps the position and turns the heading one step along
\* Right, Down, Left, Up, Right, so that four rotations in a row give the
\* pose back and one, two or three never do; advance keeps the heading and
\* moves the position by one cell: x+1 for Right, y+1 for Down, x-1 for Left,
\* y-1 for Up.
C17_RotateAdvance ==
    \A i \in 1..Len(trace) :
        /\ trace[i] = "rotate"
            => /\ poses[i + 1].p = poses[i].p
               /\ poses[i + 1].d = After(poses[i].d)
               /\ \A j \in RotationsFrom(i) :
                     (poses[j + 1] = poses[i]) <=> (j - i + 1 = 4)
        /\ trace[i] = "advance"
            => /\ poses[i + 1].d = poses[i].d
               /\ poses[i + 1].p = Ahead(poses[i])

C17_Witness ==
    /\ trace = <<"rotate", "rotate", "rotate", "rotate", "advance">>
    /\ poses[5] = poses[1]
    /\ poses[1].d = "L"
    /\ poses[6].p.x = poses[1].p.x - 1

-----------------------------------------------------------------------------
\* C18: from any starting pose on an open cell of the grid, the robot's
\* position is an open cell of the grid in every Running state: no step moves
\* it onto a wall cell or off the grid.
C18_StaysOnOpenCells ==
    (state = "Running" /\ OpenAt(Start.p)) => OpenAt(pose.p)

\* C19: for a robot on a fresh Map, the move history and the Map's visited
\* list have the same length in every state, so that the value run returns
\* is count_visited() when the run has stopped, on every grid and from
\* every starting pose.
C19_HistoryMatchesVisited ==
    /\ HasRobot => Len(poses) = Len(visited)
    /\ state = "Stopped" => LastReturned.count = CountVisited

C19_Witness ==
    /\ state = "Stopped"
    /\ Start.p # Pos(0, 0)
    /\ NumberOf("Empty") >= 2
    /\ Cardinality(VisitedMoves) >= 1
    /\ LastReturned.count = CountVisited

====
